---- MODULE Spec2Model ----
(***************************************************************************)
(* The influencer-feedback dashboard of src/app.py as a state machine.     *)
(*                                                                         *)
(* The script runs top to bottom on every render (first page load, rerun,  *)
(* change of the selectbox).  What survives between runs is the            *)
(* st.cache_data entry of load_data, the selectbox's widget value and the  *)
(* process-wide tallies of HTTP requests and classifier invocations.       *)
(*                                                                         *)
(* Strings that carry an emoji in the source are written without it:      *)
(* "RUIM" is "🔴 RUIM", "NEUTRO" is "🟡 NEUTRO", "BOM" is "🟢 BOM".            *)
(***************************************************************************)
EXTENDS Integers, Sequences, FiniteSets, TLC

VARIABLES
    fileId,      \* os.getenv("GOOGLE_DRIVE_FILE_ID"): "id" or "None"
    cache,       \* st.cache_data entry of load_data
    df,          \* module global df of the last run (line 35)
    httpGets,    \* requests.get calls made by this process
    lastGet,     \* what the GET of the last run came to ("NoRequest": none)
    selection,   \* the selectbox's widget value kept by the session
    page,        \* what the last run put on the page
    classified,  \* classifier invocations made for each profile's rows
    runs         \* script runs so far

vars == <<fileId, cache, df, httpGets, lastGet, selection, page, classified,
          runs>>

(***************************************************************************)
(* Bounds of the model.                                                    *)
(***************************************************************************)
MaxRows == 4        \* rows of a table that varies profile and rating
MaxTextRows == 3    \* rows of a table that varies the feedback text
MaxRuns == 3        \* script runs of one process

(***************************************************************************)
(* Values.                                                                 *)
(***************************************************************************)
NaN == "NaN"              \* a missing cell of a text column
NoCell == "NoCell"        \* the cell of a column the table does not have
None == "None"            \* Python None
NoContent == "No content" \* the placeholder of line 76
ProfileOrder == <<"A", "B">>   \* the profile identifiers, in sort order
Profiles == {ProfileOrder[i] : i \in 1..Len(ProfileOrder)}

Range(s) == {s[i] : i \in 1..Len(s)}

\* The classifier's labels, as the character strings they are.
Star1 == <<"1", " ", "s", "t", "a", "r">>
Stars(d) == <<d, " ", "s", "t", "a", "r", "s">>
StarLabels == {Star1, Stars("2"), Stars("3"), Stars("4"), Stars("5")}

\* Python's `sub in s` on strings.
Contains(sub, s) ==
    \E i \in 0..(Len(s) - Len(sub)) : SubSeq(s, i + 1, i + Len(sub)) = sub

(***************************************************************************)
(* Tables.  A table is its set of columns and its rows; a row holds one    *)
(* cell per column.  The rating cell is <<>> when missing, <<n>> otherwise.*)
(***************************************************************************)
AllColumns == {"perfil", "experiencia", "nota", "data"}
EmptyDataFrame == [columns |-> {}, rows |-> <<>>]

\* Variant: only a table without columns counts as empty.
IsEmptyNoColumns(t) == t.columns = {}

\* DataFrame.empty (line 62): no column or no row.
IsEmpty(t) == t.columns = {} \/ t.rows = <<>>

SeqsUpTo(S, n) == UNION {[1..k -> S] : k \in 0..n}

\* Feedback texts; SentimentPipeline below says what the classifier makes
\* of each.
Texts == {"pessimo", "ruim", "regular", "bom", "otimo", "erro"}

RatingRows ==
    [perfil : Profiles, experiencia : {"bom"}, nota : {<<>>, <<1>>, <<2>>},
     sentiment_experiencia : {NoCell}]
TextRows ==
    [perfil : {"A"}, experiencia : Texts \cup {NaN}, nota : {<<1>>},
     sentiment_experiencia : {NoCell}]
NullProfileRows ==
    [perfil : {"A", NaN}, experiencia : {"bom"}, nota : {<<1>>},
     sentiment_experiencia : {NoCell}]
PreclassifiedRows ==
    [perfil : {"A"}, experiencia : {"bom"}, nota : {<<1>>},
     sentiment_experiencia : {"BOM", "RUIM"}]

\* The CSV files the remote may serve.
RemoteTables ==
    {[columns |-> AllColumns, rows |-> r] : r \in SeqsUpTo(RatingRows, MaxRows)}
    \cup {[columns |-> AllColumns, rows |-> r] :
            r \in SeqsUpTo(TextRows, MaxTextRows)}
    \cup {[columns |-> AllColumns, rows |-> r] :
            r \in SeqsUpTo(NullProfileRows, MaxTextRows)}
    \cup {[columns |-> AllColumns \cup {"sentiment_experiencia"}, rows |-> r] :
            r \in SeqsUpTo(PreclassifiedRows, MaxTextRows)}
    \cup {[columns |-> AllColumns \ {"perfil"},
           rows |-> <<[perfil |-> NoCell, experiencia |-> "bom", nota |-> <<1>>,
                       sentiment_experiencia |-> NoCell]>>]}

(***************************************************************************)
(* load_data (lines 19-33).                                                *)
(***************************************************************************)
\* What the GET of line 27 and the parse of line 30 can come to: the
\* request fails, the status is not a success, the body does not parse as
\* a CSV with a 'data' column, or the body is a CSV table.
Failures ==
    {[kind |-> k, table |-> EmptyDataFrame] :
        k \in {"ConnectionError", "HTTPError", "ParserError"}}

\* Without the environment variable the URL of line 26 ends in "id=None",
\* which names no file: the remote has no CSV to serve for it.
Responses(id) ==
    IF id = None
    THEN Failures
    ELSE Failures \cup {[kind |-> "CSV", table |-> t] : t \in RemoteTables}

\* Lines 25-30, the body of the try: the exception raised (None when none)
\* and the value returned.
LoadDataTry(resp) ==
    IF resp.kind = "CSV"
    THEN [exc |-> None, value |-> resp.table]
    ELSE [exc |-> resp.kind, value |-> EmptyDataFrame]

\* Variant: `except requests.RequestException`.
CaughtRequestErrorsOnly(exc) == exc \in {"ConnectionError", "HTTPError"}

\* `except Exception` (line 31): every exception of the try body is one.
Caught(exc) == exc \in {"ConnectionError", "HTTPError", "ParserError"}

\* load_data's body: the table returned, whether st.error was called, and
\* the exception that left the function (None when none).
LoadData(resp) ==
    LET t == LoadDataTry(resp)
    IN  IF t.exc = None
        THEN [df |-> t.value, error |-> FALSE, exc |-> None]
        ELSE IF Caught(t.exc)
        THEN [df |-> EmptyDataFrame, error |-> TRUE, exc |-> None]
        ELSE [df |-> EmptyDataFrame, error |-> FALSE, exc |-> t.exc]

NoCache == [hit |-> FALSE, value |-> EmptyDataFrame]

\* Variant: the empty table of a failed load is not kept.
CacheStoreSuccessOnly(ld) ==
    IF ld.exc = None /\ ~ld.error
    THEN [hit |-> TRUE, value |-> ld.df]
    ELSE NoCache

\* @st.cache_data (line 19): the value a call returned is kept for the
\* process; a call that raised leaves no entry.
CacheStore(ld) ==
    IF ld.exc = None THEN [hit |-> TRUE, value |-> ld.df] ELSE NoCache

(***************************************************************************)
(* pandas: value_counts, idxmax, mean, groupby/agg, sort_values.           *)
(***************************************************************************)
\* A mean as the pair of the sum and the number of the values present;
\* n = 0 is NaN (no value present).
IsNaNMean(m) == m.n = 0
MeanLess(a, b) == ~IsNaNMean(a) /\ ~IsNaNMean(b) /\ a.sum * b.n < b.sum * a.n
\* Python's a >= b on floats: False when either is NaN.
MeanGe(a, b) == ~IsNaNMean(a) /\ ~IsNaNMean(b) /\ a.sum * b.n >= b.sum * a.n

RECURSIVE SumSeq(_)
SumSeq(s) == IF s = <<>> THEN 0 ELSE Head(s) + SumSeq(Tail(s))

RECURSIVE Flatten(_)
Flatten(cells) ==
    IF cells = <<>> THEN <<>> ELSE Head(cells) \o Flatten(Tail(cells))

\* Series.mean(): missing cells are skipped.
Mean(cells) ==
    LET present == Flatten(cells)
    IN  [sum |-> SumSeq(present), n |-> Len(present)]

\* Variant: ascending order.
SortsBeforeAscending(x, y) ==
    \/ ~IsNaNMean(x) /\ IsNaNMean(y)
    \/ MeanLess(x, y)

\* Key x goes before key y under ascending=False, na_position='last'.
SortsBefore(x, y) ==
    \/ ~IsNaNMean(x) /\ IsNaNMean(y)
    \/ MeanLess(y, x)

RECURSIVE Insert(_, _)
Insert(sorted, x) ==
    IF sorted = <<>> THEN <<x>>
    ELSE IF SortsBefore(x.key, Head(sorted).key) THEN <<x>> \o sorted
    ELSE <<Head(sorted)>> \o Insert(Tail(sorted), x)

\* sort_values(ascending=False) on a sequence of [key, row]: equal keys
\* keep their order, NaN keys go last.
RECURSIVE SortValues(_)
SortValues(s) ==
    IF s = <<>> THEN <<>>
    ELSE Insert(SortValues(SubSeq(s, 1, Len(s) - 1)), s[Len(s)])

Rows(keyed) == [i \in 1..Len(keyed) |-> keyed[i].row]

RECURSIVE Unique(_)
Unique(s) ==
    IF s = <<>> THEN <<>>
    ELSE LET front == Unique(SubSeq(s, 1, Len(s) - 1))
             x == s[Len(s)]
         IN  IF x \in Range(front) THEN front ELSE Append(front, x)

Count(s, v) == Cardinality({i \in 1..Len(s) : s[i] = v})

\* Series.value_counts(): missing values dropped, one entry per value in
\* order of first appearance, then sorted by count, largest first.
ValueCounts(s) ==
    LET present == SelectSeq(s, LAMBDA v : v # NaN)
        u == Unique(present)
        entries == [i \in 1..Len(u) |->
                      [key |-> [sum |-> Count(present, u[i]), n |-> 1],
                       row |-> [value |-> u[i], count |-> Count(present, u[i])]]]
    IN  Rows(SortValues(entries))

\* Variant: the last entry holding the largest count.
IdxMaxLast(vc) ==
    LET best == CHOOSE i \in 1..Len(vc) :
                  /\ \A j \in 1..Len(vc) : vc[j].count <= vc[i].count
                  /\ \A j \in (i + 1)..Len(vc) : vc[j].count < vc[i].count
    IN  vc[best].value

\* Series.idxmax(): the label of the first entry holding the largest count.
IdxMax(vc) ==
    LET best == CHOOSE i \in 1..Len(vc) :
                  /\ \A j \in 1..Len(vc) : vc[j].count <= vc[i].count
                  /\ \A j \in 1..(i - 1) : vc[j].count < vc[i].count
    IN  vc[best].value

Column(t, c) == [i \in 1..Len(t.rows) |-> t.rows[i][c]]

(***************************************************************************)
(* The classifier and analyze_sentiment (lines 13-15, 40-55).              *)
(***************************************************************************)
\* The pretrained classifier, a fixed function of the text: the label it
\* returns, or the exception it raises (on "erro").
SentimentPipeline(text) ==
    CASE text = "pessimo" -> [exc |-> None, label |-> Star1]
      [] text = "ruim"    -> [exc |-> None, label |-> Stars("2")]
      [] text = "regular" -> [exc |-> None, label |-> Stars("3")]
      [] text = "bom"     -> [exc |-> None, label |-> Stars("4")]
      [] text = "otimo"   -> [exc |-> None, label |-> Stars("5")]
      [] text = "erro"    -> [exc |-> "RuntimeError", label |-> <<>>]
      [] OTHER            -> [exc |-> None, label |-> Stars("3")]

\* Variant: "2 stars" grouped with "3 stars".
MapLabelNeutralFromTwo(label) ==
    IF Contains(Star1, label) THEN "RUIM"
    ELSE IF Contains(Stars("2"), label) \/ Contains(Stars("3"), label)
    THEN "NEUTRO"
    ELSE "BOM"

\* Lines 47-52.
MapLabel(label) ==
    IF Contains(Star1, label) \/ Contains(Stars("2"), label) THEN "RUIM"
    ELSE IF Contains(Stars("3"), label) THEN "NEUTRO"
    ELSE "BOM"

\* Variant: no try/except around the classifier call.
AnalyzeSentimentNoExcept(text) ==
    LET r == SentimentPipeline(text)
    IN  IF r.exc = None
        THEN [value |-> MapLabel(r.label), warned |-> FALSE, exc |-> None]
        ELSE [value |-> NoCell, warned |-> FALSE, exc |-> r.exc]

\* analyze_sentiment: the value returned, whether st.warning was called,
\* and the exception that left the function (None: `except Exception`
\* catches what the classifier raises).
AnalyzeSentiment(text) ==
    LET r == SentimentPipeline(text)
    IN  IF r.exc = None
        THEN [value |-> MapLabel(r.label), warned |-> FALSE, exc |-> None]
        ELSE [value |-> "NEUTRAL", warned |-> TRUE, exc |-> None]

\* Series.apply(analyze_sentiment) (line 81) given each row's outcome
\* res[i]: the rows are taken in order up to the first call that raises.
ApplyUpTo(texts, res, stop) ==
    [calls |-> SubSeq(texts, 1, stop),
     values |-> [i \in 1..stop |-> res[i].value],
     warnings |-> SelectSeq(SubSeq(texts, 1, stop),
                            LAMBDA t : SentimentPipeline(t).exc # None),
     exc |-> IF stop = 0 THEN None ELSE res[stop].exc]

FirstRaise(res) ==
    LET bad == {i \in 1..Len(res) : res[i].exc # None}
    IN  IF bad = {} THEN Len(res) ELSE CHOOSE i \in bad : \A j \in bad : i <= j

ApplyResults(texts, res) == ApplyUpTo(texts, res, FirstRaise(res))

Apply(texts) ==
    ApplyResults(texts, [i \in 1..Len(texts) |-> AnalyzeSentiment(texts[i])])

(***************************************************************************)
(* The script body (lines 60-109).                                         *)
(***************************************************************************)
\* Variant: threshold `>= 1`.
FrequentProfilesAtLeastOne(t) ==
    LET pc == ValueCounts(Column(t, "perfil"))
        kept == SelectSeq(pc, LAMBDA e : e.count >= 1)
    IN  [i \in 1..Len(kept) |-> kept[i].value]

\* Lines 63-64: the profiles counted more than once, most frequent first.
FrequentProfiles(t) ==
    LET pc == ValueCounts(Column(t, "perfil"))
        kept == SelectSeq(pc, LAMBDA e : e.count > 1)
    IN  [i \in 1..Len(kept) |-> kept[i].value]

\* st.selectbox (lines 66-70): the session's choice when it is an option,
\* else the first option, None when there is no option.
Selectbox(options, choice) ==
    IF options = <<>> THEN None
    ELSE IF choice \in Range(options) THEN choice
    ELSE options[1]

\* Python's truth value of selected_profile (line 72).
Truthy(p) == p # None /\ p # ""

\* Variant: no fillna.
FillNaIdentity(cell) == cell

\* fillna("No content") (line 76).
FillNa(cell) == IF cell = NaN THEN NoContent ELSE cell

\* astype(str) (line 76): a missing cell becomes the string "nan".
AsStr(cell) == IF cell = NaN THEN "nan" ELSE cell

\* Lines 73-76: the selected profile's rows, their text filled.
ProfileData(t, p) ==
    LET own == SelectSeq(t.rows, LAMBDA r : r.perfil = p)
    IN  [i \in 1..Len(own) |->
            [own[i] EXCEPT !.experiencia = AsStr(FillNa(own[i].experiencia))]]

\* Lines 100-106: one row per frequent profile, in key order, then sorted
\* by avg_nota, largest first.
RankingDf(t, frequent) ==
    LET kept == SelectSeq(t.rows, LAMBDA r : r.perfil \in Range(frequent))
        keys == SelectSeq(ProfileOrder,
                          LAMBDA p : \E i \in 1..Len(kept) : kept[i].perfil = p)
        group(p) == SelectSeq(kept, LAMBDA r : r.perfil = p)
        agg(p) == [perfil |-> p,
                   avg_nota |-> Mean([i \in 1..Len(group(p)) |-> group(p)[i].nota]),
                   total_entries |-> Len(group(p))]
        keyed == [i \in 1..Len(keys) |->
                    [key |-> agg(keys[i]).avg_nota, row |-> agg(keys[i])]]
    IN  Rows(SortValues(keyed))

NoPanels == [shown |-> FALSE, sentiment |-> None,
             average_rating |-> [sum |-> 0, n |-> 0], total_entries |-> 0]

\* A page on which nothing was rendered.
BlankPage ==
    [title |-> FALSE, loadError |-> FALSE, emptyWarning |-> FALSE,
     selector |-> [shown |-> FALSE, options |-> <<>>],
     selected_profile |-> None, calls |-> <<>>, sentiments |-> <<>>,
     warnings |-> <<>>, panels |-> NoPanels,
     ranking |-> [shown |-> FALSE, rows |-> <<>>], exception |-> None]

\* Lines 79-81: the sentiment column of profile_data, classified unless
\* the table already has the column.
SentimentColumn(t, pd) ==
    IF "sentiment_experiencia" \notin t.columns
    THEN Apply([i \in 1..Len(pd) |-> pd[i].experiencia])
    ELSE [calls |-> <<>>,
          values |-> [i \in 1..Len(pd) |-> pd[i].sentiment_experiencia],
          warnings |-> <<>>, exc |-> None]

\* Lines 84-97: the three panels.
Panels(pd, values) ==
    [shown |-> TRUE,
     sentiment |-> IdxMax(ValueCounts(values)),
     average_rating |-> Mean([i \in 1..Len(pd) |-> pd[i].nota]),
     total_entries |-> Len(pd)]

\* Lines 72-97 on the page so far: nothing when selected_profile is
\* falsy; no panel when a classification raised.
SectionOn(pg, pd, ap) ==
    [pg EXCEPT !.calls = ap.calls, !.sentiments = ap.values,
               !.warnings = ap.warnings, !.exception = ap.exc,
               !.panels = IF ap.exc # None THEN NoPanels
                          ELSE Panels(pd, ap.values)]

SectionFor(pg, t, pd) == SectionOn(pg, pd, SentimentColumn(t, pd))

ProfileSection(pg, t) ==
    IF Truthy(pg.selected_profile)
    THEN SectionFor(pg, t, ProfileData(t, pg.selected_profile))
    ELSE pg

\* Lines 99-107, not reached when the lines before raised.
RankingSection(pg, t) ==
    IF pg.exception # None THEN pg
    ELSE [pg EXCEPT !.ranking =
            [shown |-> TRUE, rows |-> RankingDf(t, pg.selector.options)]]

\* Lines 66-70.
SelectorSection(pg, frequent, choice) ==
    [pg EXCEPT !.selector = [shown |-> TRUE, options |-> frequent],
               !.selected_profile = Selectbox(frequent, choice)]

\* Lines 60-109 on table t with the session's selectbox choice.
Body(t, error, choice) ==
    IF IsEmpty(t)
    THEN [BlankPage EXCEPT !.title = TRUE, !.loadError = error,
                           !.emptyWarning = TRUE]
    ELSE IF "perfil" \notin t.columns
    THEN [BlankPage EXCEPT !.title = TRUE, !.loadError = error,
                           !.exception = "KeyError"]
    ELSE RankingSection(
            ProfileSection(
               SelectorSection(
                  [BlankPage EXCEPT !.title = TRUE, !.loadError = error],
                  FrequentProfiles(t), choice),
               t),
            t)

(***************************************************************************)
(* The state machine.                                                      *)
(***************************************************************************)
Init ==
    /\ fileId \in {"id", None}
    /\ cache = NoCache
    /\ df = EmptyDataFrame
    /\ httpGets = 0
    /\ lastGet = "NoRequest"
    /\ selection = None
    /\ page = BlankPage
    /\ classified = [p \in Profiles |-> 0]
    /\ runs = 0

\* df = load_data() (line 35): the cached value on a hit, else the body.
\* The st.error of line 32 is put on the page by the run that executes the
\* body.
Load(resp) ==
    IF cache.hit
    THEN [df |-> cache.value, error |-> FALSE, exc |-> None]
    ELSE LoadData(resp)

\* The page of a run: nothing when load_data raised, else lines 60-109.
Render(ld, choice) ==
    IF ld.exc # None
    THEN [BlankPage EXCEPT !.exception = ld.exc]
    ELSE Body(ld.df, ld.error, choice)

\* The effects of a run that loaded ld and rendered out.
Commit(ld, out) ==
    /\ runs < MaxRuns
    /\ runs' = runs + 1
    /\ cache' = IF cache.hit THEN cache ELSE CacheStore(ld)
    /\ httpGets' = IF cache.hit THEN httpGets ELSE httpGets + 1
    /\ df' = IF ld.exc # None THEN df ELSE ld.df
    /\ page' = out
    /\ classified' =
          [p \in Profiles |->
              IF p = out.selected_profile
              THEN classified[p] + Len(out.calls)
              ELSE classified[p]]
    /\ UNCHANGED fileId

RunWith(ld, choice) == Commit(ld, Render(ld, choice))

NoRequest == [kind |-> "NoRequest", table |-> EmptyDataFrame]

\* One run of the script (lines 15-112) with the selectbox choice `choice`;
\* resp is what the GET comes to when load_data's body runs.
Script(choice, resp) ==
    /\ RunWith(Load(resp), choice)
    /\ lastGet' = resp.kind

\* What the GET can come to in the next run; no GET is made on a cache hit.
Fetchable ==
    IF cache.hit THEN {NoRequest} ELSE Responses(fileId)

\* The page is opened or rerun with the widget state as it is.
Rerun ==
    \E resp \in Fetchable :
        /\ Script(selection, resp)
        /\ UNCHANGED selection

\* The user picks another option of the selectbox on the page, which reruns
\* the script.
SelectProfile(p) ==
    /\ page.selector.shown
    /\ p \in Range(page.selector.options)
    /\ p # page.selected_profile
    /\ selection' = p
    /\ \E resp \in Fetchable : Script(p, resp)

Next ==
    \/ Rerun
    \/ \E p \in Profiles : SelectProfile(p)

Spec == Init /\ [][Next]_vars

(***************************************************************************)
(* Properties.                                                             *)
(***************************************************************************)
\* What the formulas read off a state.
Rendered == runs > 0
Options == Range(page.selector.options)
Ranked == {page.ranking.rows[i].perfil : i \in 1..Len(page.ranking.rows)}
RowsOf(p) == SelectSeq(df.rows, LAMBDA r : r.perfil = p)
Occurrences(s, v) == Cardinality({i \in 1..Len(s) : s[i] = v})
FirstAt(s, v) == CHOOSE i \in 1..Len(s) : s[i] = v /\ \A j \in 1..(i - 1) : s[j] # v
Raises(text) == SentimentPipeline(text).exc # None
Classifies == "sentiment_experiencia" \notin df.columns

\* C1: in every render over a non-empty table (one with a profile column),
\* the selector and the ranking table are shown, a profile with exactly one
\* feedback row is in neither, and a profile with two or more rows is in
\* both.
C1_Eligibility ==
    (Rendered /\ df.rows # <<>> /\ "perfil" \in df.columns) =>
        /\ page.selector.shown
        /\ page.ranking.shown
        /\ \A p \in Profiles :
              /\ Len(RowsOf(p)) = 1 => (p \notin Options /\ p \notin Ranked)
              /\ Len(RowsOf(p)) >= 2 => (p \in Options /\ p \in Ranked)

C1_Witness ==
    /\ page.selector.shown /\ page.ranking.shown
    /\ \E p, q \in Profiles :
          /\ Len(RowsOf(p)) = 1 /\ p \notin Options /\ p \notin Ranked
          /\ Len(RowsOf(q)) >= 2 /\ q \in Options /\ q \in Ranked

\* C2: every text the classifier labelled "1 star" or "2 stars" got the
\* value RUIM, "3 stars" NEUTRO, "4 stars" or "5 stars" BOM.
C2_LabelMapping ==
    \A i \in 1..Len(page.calls) :
        LET r == SentimentPipeline(page.calls[i])
        IN  r.exc = None =>
              /\ r.label \in {Star1, Stars("2")} => page.sentiments[i] = "RUIM"
              /\ r.label = Stars("3") => page.sentiments[i] = "NEUTRO"
              /\ r.label \in {Stars("4"), Stars("5")} => page.sentiments[i] = "BOM"

C2_Witness ==
    /\ Len(page.calls) = 3
    /\ SentimentPipeline(page.calls[1]).label = Stars("2")
    /\ SentimentPipeline(page.calls[2]).label = Stars("3")
    /\ SentimentPipeline(page.calls[3]).label = Stars("5")
    /\ page.sentiments = <<"RUIM", "NEUTRO", "BOM">>

\* C3 as stated: in every render that shows the ranking table, each row's
\* mean rating is greater than or equal to the next row's.
C3_SortedByMean ==
    page.ranking.shown =>
        \A i \in 1..(Len(page.ranking.rows) - 1) :
            MeanGe(page.ranking.rows[i].avg_nota, page.ranking.rows[i + 1].avg_nota)

\* C3 amended: in every render that shows the ranking table, the rows whose
\* mean rating is defined come first and are ordered by mean rating
\* non-increasing; the rows of profiles with no rating at all (mean NaN)
\* come after them.
C3_SortedByMeanNaNLast ==
    page.ranking.shown =>
        \A i \in 1..(Len(page.ranking.rows) - 1) :
            LET a == page.ranking.rows[i].avg_nota
                b == page.ranking.rows[i + 1].avg_nota
            IN  /\ IsNaNMean(a) => IsNaNMean(b)
                /\ (~IsNaNMean(a) /\ ~IsNaNMean(b)) => a.sum * b.n >= b.sum * a.n

C3_Witness ==
    /\ page.ranking.shown
    /\ Len(page.ranking.rows) = 2
    /\ page.ranking.rows[1].perfil = "B"
    /\ page.ranking.rows[1].avg_nota = [sum |-> 4, n |-> 2]
    /\ page.ranking.rows[2].avg_nota = [sum |-> 3, n |-> 2]

\* C4: whenever load_data's body ran and the fetch failed (the request, the
\* status or the parse; always so when the file identifier is missing),
\* the error message was shown, the table is the empty table, and no
\* exception left load_data: the script went on to the title and the
\* empty-table warning.
C4_LoadFailureHandled ==
    (Rendered /\ (lastGet \in {"ConnectionError", "HTTPError", "ParserError"}
                  \/ (fileId = None /\ lastGet # "NoRequest"))) =>
        /\ page.loadError
        /\ df = EmptyDataFrame
        /\ page.exception = None
        /\ page.title /\ page.emptyWarning

C4_Witness ==
    /\ fileId = None
    /\ lastGet = "ParserError"
    /\ page.loadError /\ df = EmptyDataFrame /\ page.exception = None

\* C5: in every render where the loaded table has no row, the warning is
\* shown, neither the selector, the panels nor the ranking table is
\* rendered, and the classifier is not invoked.
C5_EmptyTable ==
    (Rendered /\ df.rows = <<>>) =>
        /\ page.emptyWarning
        /\ ~page.selector.shown
        /\ ~page.panels.shown
        /\ ~page.ranking.shown
        /\ page.calls = <<>>

C5_Witness ==
    /\ Rendered /\ df.rows = <<>> /\ df.columns # {}
    /\ ~page.loadError /\ page.emptyWarning /\ ~page.selector.shown

\* C6: the process makes at most one GET; once a run has loaded the table,
\* no later run makes a GET or changes the cached table, and every later
\* run works on that same table (the empty one when the load failed).
C6_LoadedOnce ==
    /\ [](httpGets <= 1)
    /\ [][Rendered => (/\ httpGets' = httpGets
                       /\ cache' = cache
                       /\ df' = df
                       /\ cache.hit /\ cache.value = df)]_vars

C6_Witness ==
    /\ runs >= 2 /\ httpGets = 1 /\ lastGet = "NoRequest"
    /\ df = EmptyDataFrame /\ cache.hit /\ page.emptyWarning

\* C7: the classifier is handed one text per row of the selected profile;
\* for a row whose text is missing that text is the placeholder, and no
\* text handed over is a missing value.
C7_Placeholder ==
    (page.panels.shown /\ Classifies) =>
        LET own == RowsOf(page.selected_profile)
        IN  /\ Len(page.calls) = Len(own)
            /\ \A i \in 1..Len(own) :
                  /\ page.calls[i] # NaN
                  /\ own[i].experiencia = NaN => page.calls[i] = NoContent
                  /\ own[i].experiencia # NaN => page.calls[i] = own[i].experiencia

C7_Witness ==
    /\ page.panels.shown /\ Classifies
    /\ \E i \in 1..Len(page.calls) :
          /\ RowsOf(page.selected_profile)[i].experiencia = NaN
          /\ page.calls[i] = NoContent

\* C8: when the classifier raises on a row of the selected profile, that
\* row's value is the fallback, which is none of the three mapped values,
\* a warning is emitted for it, every row of the profile is still
\* classified, and the panels and the ranking table are rendered.
C8_ClassifierFailure ==
    LET own == RowsOf(page.selected_profile)
    IN  (/\ Rendered /\ Classifies /\ page.selector.shown
         /\ page.selected_profile # None
         /\ \E i \in 1..Len(own) : Raises(own[i].experiencia)) =>
            /\ page.exception = None
            /\ Len(page.calls) = Len(own)
            /\ Len(page.sentiments) = Len(own)
            /\ \A i \in 1..Len(own) :
                  Raises(own[i].experiencia) =>
                     /\ page.sentiments[i] = "NEUTRAL"
                     /\ page.sentiments[i] \notin {MapLabel(l) : l \in StarLabels}
                     /\ own[i].experiencia \in Range(page.warnings)
            /\ page.panels.shown
            /\ page.ranking.shown

C8_Witness ==
    /\ page.panels.shown /\ page.ranking.shown
    /\ Len(page.calls) = 3
    /\ Raises(page.calls[1]) /\ ~Raises(page.calls[2]) /\ ~Raises(page.calls[3])
    /\ page.sentiments[1] = "NEUTRAL"
    /\ page.warnings = <<page.calls[1]>>

\* C9 as stated: over the renders of one process each feedback row's text
\* is classified at most once, so the classifier invocations made for a
\* profile never exceed the number of its rows.
C9_ClassifiedAtMostOnce ==
    \A p \in Profiles : classified[p] <= Len(RowsOf(p))

\* C10: the sentiment shown is a value of the profile's rows that no other
\* value outnumbers, and among the values that occur as often it is the
\* one met first in row order.
C10_Mode ==
    page.panels.shown =>
        LET v == page.sentiments
            s == page.panels.sentiment
        IN  /\ s \in Range(v)
            /\ \A w \in Range(v) :
                  /\ Occurrences(v, w) <= Occurrences(v, s)
                  /\ Occurrences(v, w) = Occurrences(v, s) =>
                        FirstAt(v, s) <= FirstAt(v, w)

C10_Witness ==
    /\ page.panels.shown
    /\ Len(page.sentiments) = 3
    /\ page.sentiments[1] # page.sentiments[2]
    /\ page.sentiments[3] = page.sentiments[2]
    /\ page.panels.sentiment = page.sentiments[2]

====
